---------------------------- MODULE Spec2Model ----------------------------
(***************************************************************************)
(* SRV-record cache, routing decision and redirect-override store of the   *)
(* Cloudflare Worker "SRV redirect + portal".                              *)
(*                                                                         *)
(* Strings are sequences of one-character strings, so that prefix tests,   *)
(* splitting on ".", parseInt and the wildcard regular expression are      *)
(* computed character by character as the JavaScript does.                 *)
(*                                                                         *)
(* JavaScript runs one continuation at a time: a handler is atomic between *)
(* two awaits.  Each action below is one such run-to-completion segment.   *)
(***************************************************************************)
EXTENDS Integers, Sequences, FiniteSets, TLC

----------------------------------------------------------------------------
(* String helpers: the methods of String.prototype the code uses            *)

\* s.startsWith(p)
StartsWith(s, p) ==
    /\ Len(s) >= Len(p)
    /\ SubSeq(s, 1, Len(p)) = p

\* s.includes(sub)
Includes(s, sub) ==
    \E i \in 1..(Len(s) - Len(sub) + 1) : SubSeq(s, i, i + Len(sub) - 1) = sub

\* the lower-case form of each upper-case letter
LowerTable ==
    [ A |-> "a", B |-> "b", C |-> "c", D |-> "d", E |-> "e", F |-> "f", G |-> "g",
      H |-> "h", I |-> "i", J |-> "j", K |-> "k", L |-> "l", M |-> "m", N |-> "n",
      O |-> "o", P |-> "p", Q |-> "q", R |-> "r", S |-> "s", T |-> "t", U |-> "u",
      V |-> "v", W |-> "w", X |-> "x", Y |-> "y", Z |-> "z" ]

\* the upper-case letters
UpperLetters == DOMAIN LowerTable

\* one character of s.toLowerCase()
LowerChar(c) == IF c \in UpperLetters THEN LowerTable[c] ELSE c

\* s.toLowerCase()
ToLowerCase(s) == [i \in 1..Len(s) |-> LowerChar(s[i])]

\* index of the first "." of s, 0 when there is none
RECURSIVE FirstDot(_, _)
FirstDot(s, i) ==
    IF i > Len(s) THEN 0
    ELSE IF s[i] = "." THEN i
    ELSE FirstDot(s, i + 1)

\* s.split(".")
RECURSIVE Split(_)
Split(s) ==
    LET d == FirstDot(s, 1) IN
    IF d = 0 THEN <<s>>
    ELSE <<SubSeq(s, 1, d - 1)>> \o Split(SubSeq(s, d + 1, Len(s)))

\* parts.join(".")
RECURSIVE Join(_)
Join(parts) ==
    IF Len(parts) = 0 THEN <<>>
    ELSE IF Len(parts) = 1 THEN parts[1]
    ELSE parts[1] \o <<".">> \o Join(Tail(parts))

\* s.trim(), for the white space " "
RECURSIVE TrimStart(_)
TrimStart(s) ==
    IF Len(s) > 0 /\ s[1] = " " THEN TrimStart(Tail(s)) ELSE s

IsDigit(c) == c \in {"0", "1", "2", "3", "4", "5", "6", "7", "8", "9"}

DigitVal(c) ==
    CASE c = "0" -> 0 [] c = "1" -> 1 [] c = "2" -> 2 [] c = "3" -> 3
      [] c = "4" -> 4 [] c = "5" -> 5 [] c = "6" -> 6 [] c = "7" -> 7
      [] c = "8" -> 8 [] c = "9" -> 9

\* value of the longest prefix of decimal digits of s, read after acc
RECURSIVE DigitsPrefix(_, _)
DigitsPrefix(s, acc) ==
    IF Len(s) > 0 /\ IsDigit(s[1])
    THEN DigitsPrefix(Tail(s), 10 * acc + DigitVal(s[1]))
    ELSE acc

\* parseInt(s, 10): leading white space is skipped, then the longest prefix
\* of digits is read; NaN when there is no digit.  (No model input carries a
\* sign.)  The result is [nan |-> TRUE] or [nan |-> FALSE, val |-> n].
ParseInt(s) ==
    LET t == TrimStart(s) IN
    IF Len(t) > 0 /\ IsDigit(t[1])
    THEN [nan |-> FALSE, val |-> DigitsPrefix(t, 0)]
    ELSE [nan |-> TRUE, val |-> 0]

----------------------------------------------------------------------------
(* Record Parser                                                           *)

\* parseSrvName(name): { service, protocol, hostname }
parseSrvName(name) ==
    LET parts == Split(name) IN
    IF Len(parts) < 2
    THEN [service |-> <<>>, protocol |-> <<>>, hostname |-> name]
    ELSE [service  |-> parts[1],
          protocol |-> parts[2],
          hostname |-> Join(SubSeq(parts, 3, Len(parts)))]

\* (r.data?.target || "").replace(/\.$/, "")
StripRootDot(t) ==
    IF Len(t) > 0 /\ t[Len(t)] = "." THEN SubSeq(t, 1, Len(t) - 1) ELSE t

\* the object fetchAllSrvRecords builds from one API result item r; an
\* absent r.data.port, priority or weight is the raw value 0 (x || 0)
ParseRecord(r) ==
    LET n == parseSrvName(r.name) IN
    [originalName |-> r.name,
     service      |-> n.service,
     protocol     |-> n.protocol,
     hostname     |-> n.hostname,
     port         |-> r.port,
     priority     |-> r.priority,
     weight       |-> r.weight,
     target       |-> StripRootDot(r.target)]

\* allRecords.map(r => ...)
ParseAll(raw) == [i \in 1..Len(raw) |-> ParseRecord(raw[i])]

----------------------------------------------------------------------------
(* Pattern Matcher                                                         *)

\* wildcardToRegex(wildcard): "." becomes the literal \. and "*" becomes
\* .* ; the result is the token list of the regular expression between
\* ^ and $.  A token is [any |-> TRUE] for .* or [any |-> FALSE, ch |-> c].
wildcardToRegex(wildcard) ==
    [i \in 1..Len(wildcard) |->
        IF wildcard[i] = "*"
        THEN [any |-> TRUE, ch |-> "*"]
        ELSE [any |-> FALSE, ch |-> wildcard[i]]]

\* the tokens of regex from index i on match h from index j to its end:
\* .* takes any number of characters, a literal takes exactly its own
RECURSIVE RegexMatchFrom(_, _, _, _)
RegexMatchFrom(regex, i, h, j) ==
    IF i > Len(regex) THEN j > Len(h)
    ELSE IF regex[i].any
    THEN \E k \in j..(Len(h) + 1) : RegexMatchFrom(regex, i + 1, h, k)
    ELSE /\ j <= Len(h)
         /\ h[j] = regex[i].ch
         /\ RegexMatchFrom(regex, i + 1, h, j + 1)

\* RegexTest without the anchor at the end: a match of some prefix of h
RegexTestPrefix(regex, h) ==
    \E n \in 0..Len(h) : RegexMatchFrom(regex, 1, SubSeq(h, 1, n), 1)

\* regex.test(h) for the anchored expression ^tokens$
RegexTest(regex, h) == RegexMatchFrom(regex, 1, h, 1)

\* config.domainList.some(pattern => wildcardToRegex(pattern).test(h))
MatchesDomainList(domainList, h) ==
    \E i \in 1..Len(domainList) : RegexTest(wildcardToRegex(domainList[i]), h)

----------------------------------------------------------------------------
(* Routing Engine                                                          *)

c_http  == <<"_", "h", "t", "t", "p">>
c_https == <<"_", "h", "t", "t", "p", "s">>
c_tls   == <<"t", "l", "s">>
c_dtls  == <<".", "_", "t", "l", "s">>
c_ssh   == <<"_", "s", "s", "h">>
c_sftp  == <<"_", "s", "f", "t", "p">>
c_rdp   == <<"_", "r", "d", "p">>
c_vnc   == <<"_", "v", "n", "c">>
c_webdot    == <<"w", "e", "b", ".">>
c_portaldot == <<"p", "o", "r", "t", "a", "l", ".">>

\* determineIfWebService(service, protocol): { isWeb, scheme }
determineIfWebService(service, protocol) ==
    LET sLower == ToLowerCase(service) IN
    IF StartsWith(sLower, c_http) \/ StartsWith(sLower, c_https)
    THEN [isWeb  |-> TRUE,
          scheme |-> IF StartsWith(sLower, c_https) THEN "https"
                     ELSE IF \/ Includes(ToLowerCase(protocol), c_tls)
                             \/ Includes(sLower, c_dtls)
                          THEN "https"
                          ELSE "http"]
    ELSE [isWeb |-> FALSE, scheme |-> "http"]

NoLink == [scheme |-> ""]

\* getLocalSchemeLink with the service compared for equality
getLocalSchemeLinkExact(service, protocol, target, port) ==
    LET s == ToLowerCase(service) IN
    IF s = c_ssh THEN [scheme |-> "ssh", target |-> target, port |-> port]
    ELSE IF s = c_sftp THEN [scheme |-> "sftp", target |-> target, port |-> port]
    ELSE IF s = c_rdp THEN [scheme |-> "rdp", target |-> target, port |-> port]
    ELSE IF s = c_vnc THEN [scheme |-> "vnc", target |-> target, port |-> port]
    ELSE [scheme |-> ""]

\* getLocalSchemeLink(service, protocol, target, port): the link
\* scheme://target:port, or "" (NoLink)
getLocalSchemeLink(service, protocol, target, port) ==
    LET s == ToLowerCase(service) IN
    IF Includes(s, c_ssh) THEN [scheme |-> "ssh", target |-> target, port |-> port]
    ELSE IF Includes(s, c_sftp) THEN [scheme |-> "sftp", target |-> target, port |-> port]
    ELSE IF Includes(s, c_rdp) THEN [scheme |-> "rdp", target |-> target, port |-> port]
    ELSE IF Includes(s, c_vnc) THEN [scheme |-> "vnc", target |-> target, port |-> port]
    ELSE NoLink

\* the least index of the set hits, 0 when it is empty: the index of the
\* element Array.prototype.find returns
FirstIndex(hits) ==
    IF hits = {} THEN 0
    ELSE CHOOSE i \in hits : \A j \in hits : i <= j

NoFallback == [found |-> FALSE]

\* handlePortalSubdomainFallback without the test match[1].includes(".")
handlePortalSubdomainFallbackAnyLabel(hostname, portalDomain, allSrvRecords) ==
    LET suffix == <<".">> \o portalDomain
        cut    == Len(hostname) - Len(suffix)
        \* hostname.match(/^(.+)\.<portalDomain>$/)
        match  == /\ cut >= 1
                  /\ SubSeq(hostname, cut + 1, Len(hostname)) = suffix
        subdomain   == SubSeq(hostname, 1, cut)
        webHostname == c_webdot \o portalDomain
        IsWebSrv(r) == r.hostname = webHostname /\ StartsWith(r.service, c_http)
        idx == FirstIndex({i \in 1..Len(allSrvRecords) : IsWebSrv(allSrvRecords[i])})
    IN
    IF ~match THEN NoFallback
    ELSE IF idx = 0 THEN NoFallback
    ELSE LET webSrv == allSrvRecords[idx]
             tLower == ToLowerCase(webSrv.target)
             \* /^(?:web|portal)\./i
             plen   == IF StartsWith(tLower, c_webdot) THEN Len(c_webdot)
                       ELSE IF StartsWith(tLower, c_portaldot) THEN Len(c_portaldot)
                       ELSE 0
         IN
         IF plen = 0 THEN NoFallback
         ELSE [found  |-> TRUE,
               scheme |-> determineIfWebService(webSrv.service, webSrv.protocol).scheme,
               target |-> subdomain \o <<".">>
                            \o SubSeq(webSrv.target, plen + 1, Len(webSrv.target)),
               port   |-> webSrv.port]

\* handlePortalSubdomainFallback(hostname, portalDomain, allSrvRecords):
\* null (NoFallback) or { scheme, target, port }
handlePortalSubdomainFallback(hostname, portalDomain, allSrvRecords) ==
    LET suffix == <<".">> \o portalDomain
        cut    == Len(hostname) - Len(suffix)
        \* hostname.match(/^(.+)\.<portalDomain>$/)
        match  == /\ cut >= 1
                  /\ SubSeq(hostname, cut + 1, Len(hostname)) = suffix
        subdomain   == SubSeq(hostname, 1, cut)
        webHostname == c_webdot \o portalDomain
        IsWebSrv(r) == r.hostname = webHostname /\ StartsWith(r.service, c_http)
        idx == FirstIndex({i \in 1..Len(allSrvRecords) : IsWebSrv(allSrvRecords[i])})
    IN
    IF ~match \/ Includes(subdomain, <<".">>) THEN NoFallback
    ELSE IF idx = 0 THEN NoFallback
    ELSE LET webSrv == allSrvRecords[idx]
             tLower == ToLowerCase(webSrv.target)
             \* /^(?:web|portal)\./i
             plen   == IF StartsWith(tLower, c_webdot) THEN Len(c_webdot)
                       ELSE IF StartsWith(tLower, c_portaldot) THEN Len(c_portaldot)
                       ELSE 0
         IN
         IF plen = 0 THEN NoFallback
         ELSE [found  |-> TRUE,
               scheme |-> determineIfWebService(webSrv.service, webSrv.protocol).scheme,
               target |-> subdomain \o <<".">>
                            \o SubSeq(webSrv.target, plen + 1, Len(webSrv.target)),
               port   |-> webSrv.port]

\* CustomStatus with the override store never consulted
CustomStatusDefaultOnly(modes, hostname, defaultRedirectStatus) ==
    defaultRedirectStatus

\* globalThis.customRedirectModes[hostname] || config.defaultRedirectStatus
CustomStatus(modes, hostname, defaultRedirectStatus) ==
    IF hostname \in DOMAIN modes /\ modes[hostname] # 0
    THEN modes[hostname]
    ELSE defaultRedirectStatus

\* handleSrvRedirect with bestSrv chosen by lowest priority (the first of
\* those in cache order), not by position
handleSrvRedirectByPriority(hostname, allSrvRecords, modes, cfg) ==
    LET InList(rec) == MatchesDomainList(cfg.domainList, rec.hostname)
        matchedRecords == SelectSeq(allSrvRecords, InList)
        ForHost(rec) == rec.hostname = hostname
        matchedForHostname == SelectSeq(matchedRecords, ForHost)
    IN
    IF Len(matchedForHostname) = 0
    THEN LET portalSubdomain ==
                 handlePortalSubdomainFallback(hostname, cfg.portalDomain, allSrvRecords)
         IN
         IF portalSubdomain.found
         THEN [kind   |-> "Redirect",
               via    |-> "fallback",
               host   |-> hostname,
               status |-> CustomStatus(modes, hostname, cfg.defaultRedirectStatus),
               scheme |-> portalSubdomain.scheme,
               target |-> portalSubdomain.target,
               port   |-> portalSubdomain.port]
         ELSE [kind |-> "NotFound", host |-> hostname, status |-> 404]
    ELSE LET lowest == {i \in 1..Len(matchedForHostname) :
                           \A j \in 1..Len(matchedForHostname) :
                               matchedForHostname[i].priority
                                   <= matchedForHostname[j].priority}
             bestSrv == matchedForHostname[CHOOSE i \in lowest : \A j \in lowest : i <= j]
             web == determineIfWebService(bestSrv.service, bestSrv.protocol)
         IN
         IF ~web.isWeb
         THEN [kind     |-> "ServiceInfo",
               host     |-> hostname,
               status   |-> 200,
               service  |-> bestSrv.service,
               protocol |-> bestSrv.protocol,
               target   |-> bestSrv.target,
               port     |-> bestSrv.port,
               link     |-> getLocalSchemeLink(bestSrv.service, bestSrv.protocol,
                                               bestSrv.target, bestSrv.port)]
         ELSE [kind   |-> "Redirect",
               via    |-> "exact",
               host   |-> hostname,
               status |-> CustomStatus(modes, hostname, cfg.defaultRedirectStatus),
               scheme |-> web.scheme,
               target |-> bestSrv.target,
               port   |-> bestSrv.port]

\* handleSrvRedirect: the response for a request to hostname, computed from
\* the records read once from the cache (allSrvRecords), the override store
\* (modes) and the configuration
handleSrvRedirect(hostname, allSrvRecords, modes, cfg) ==
    LET InList(rec) == MatchesDomainList(cfg.domainList, rec.hostname)
        matchedRecords == SelectSeq(allSrvRecords, InList)
        ForHost(rec) == rec.hostname = hostname
        matchedForHostname == SelectSeq(matchedRecords, ForHost)
    IN
    IF Len(matchedForHostname) = 0
    THEN LET portalSubdomain ==
                 handlePortalSubdomainFallback(hostname, cfg.portalDomain, allSrvRecords)
         IN
         IF portalSubdomain.found
         THEN [kind   |-> "Redirect",
               via    |-> "fallback",
               host   |-> hostname,
               status |-> CustomStatus(modes, hostname, cfg.defaultRedirectStatus),
               scheme |-> portalSubdomain.scheme,
               target |-> portalSubdomain.target,
               port   |-> portalSubdomain.port]
         ELSE [kind |-> "NotFound", host |-> hostname, status |-> 404]
    ELSE LET bestSrv == matchedForHostname[1]
             web == determineIfWebService(bestSrv.service, bestSrv.protocol)
         IN
         IF ~web.isWeb
         THEN [kind     |-> "ServiceInfo",
               host     |-> hostname,
               status   |-> 200,
               service  |-> bestSrv.service,
               protocol |-> bestSrv.protocol,
               target   |-> bestSrv.target,
               port     |-> bestSrv.port,
               link     |-> getLocalSchemeLink(bestSrv.service, bestSrv.protocol,
                                               bestSrv.target, bestSrv.port)]
         ELSE [kind   |-> "Redirect",
               via    |-> "exact",
               host   |-> hostname,
               status |-> CustomStatus(modes, hostname, cfg.defaultRedirectStatus),
               scheme |-> web.scheme,
               target |-> bestSrv.target,
               port   |-> bestSrv.port]

----------------------------------------------------------------------------
(* Configuration (initConfig)                                              *)

\* s with the first occurrence of "*." removed: s.replace("*.", "")
RemoveWildcardPrefix(s) ==
    LET hits == {i \in 1..(Len(s) - 1) : s[i] = "*" /\ s[i + 1] = "."} IN
    IF hits = {} THEN s
    ELSE LET i == CHOOSE k \in hits : \A j \in hits : k <= j IN
         SubSeq(s, 1, i - 1) \o SubSeq(s, i + 2, Len(s))

h_portal_example == <<"p", "o", "r", "t", "a", "l", ".", "e", "x", "a", "m", "p", "l", "e", ".", "c", "o", "m">>

cacheTtl == 300

\* ValidStatuses with 999 accepted as well
ValidStatusesWith999 == {301, 302, 307, 308, 999}

ValidStatuses == {301, 302, 307, 308}

\* initConfig(env).  env.DOMAINS is the list left after split(","), trim
\* and filter(Boolean); an unset variable is the empty string.
initConfig(e) ==
    LET domainList == e.DOMAINS
        w == FirstIndex({i \in 1..Len(domainList) : Includes(domainList[i], <<"*", ".">>)})
        parsedStatus == ParseInt(e.DEFAULT_REDIRECT_STATUS)
    IN
    [domainList   |-> domainList,
     portalDomain |-> IF e.PORTAL_DOMAIN # <<>> THEN e.PORTAL_DOMAIN
                      ELSE IF w # 0 THEN RemoveWildcardPrefix(domainList[w])
                      ELSE IF Len(domainList) > 0 THEN domainList[1]
                      ELSE h_portal_example,
     cfApiToken   |-> e.CF_API_TOKEN,
     cfZoneId     |-> e.CF_ZONE_ID,
     cacheTtl     |-> cacheTtl,
     portalPasswd |-> IF e.PORTAL_PASSWD # "" THEN e.PORTAL_PASSWD ELSE "11111111",
     defaultRedirectStatus |->
         IF parsedStatus.nan \/ parsedStatus.val \notin ValidStatuses
         THEN 302
         ELSE parsedStatus.val]

----------------------------------------------------------------------------
(* Model inputs: host names, the SRV records the DNS API may return, the   *)
(* worker environments, the instants Date.now() is sampled at.             *)

h_nat  == <<"n", "a", "t", ".", "e", "x">>
h_a    == <<"a", ".">> \o h_nat
h_s    == <<"s", ".">> \o h_nat
h_b    == <<"b", ".">> \o h_nat
h_foo  == <<"f", "o", "o", ".">> \o h_nat
h_xy   == <<"x", ".", "y", ".">> \o h_nat
h_web  == c_webdot \o h_nat
h_d1   == <<"d", "1", ".", "e", "x">>
p_nat  == <<"*", ".">> \o h_nat

s_tcp  == <<".", "_", "t", "c", "p", ".">>
t_one  == <<"t", "1", ".", "i", "n", ".">>
t_two  == <<"t", "2", ".", "i", "n">>

\* result items of the DNS API: name, data.target, data.port, data.priority,
\* data.weight
rrA1 == [name |-> c_http \o s_tcp \o h_a, target |-> t_one,
         port |-> 8080, priority |-> 10, weight |-> 5]
rrA2 == [name |-> c_https \o s_tcp \o h_a, target |-> t_two,
         port |-> 8443, priority |-> 1, weight |-> 50]
rrS  == [name |-> c_ssh \o s_tcp \o h_s, target |-> t_one,
         port |-> 22, priority |-> 0, weight |-> 0]
rrW  == [name |-> c_http \o <<".", "_", "t", "l", "s", ".">> \o h_web,
         target |-> <<"w", "e", "b", ".", "i", "n", ".">>, port |-> 443, priority |-> 0, weight |-> 0]
rrWb == [name |-> c_https \o s_tcp \o h_web,
         target |-> <<"w", "e", "b", "-", "b", ".", "i", "n", ".">>, port |-> 8443, priority |-> 0, weight |-> 0]
rrB  == [name |-> <<"_", "h", "t", "t", "p", "_", "t", "l", "s">> \o s_tcp \o h_b, target |-> t_two,
         port |-> 0, priority |-> 0, weight |-> 0]
rrU  == [name |-> <<"_", "H", "T", "T", "P">> \o s_tcp \o h_web,
         target |-> <<"w", "e", "b", ".", "i", "n", ".">>, port |-> 80, priority |-> 0, weight |-> 0]
rrP  == [name |-> c_http \o s_tcp \o h_web,
         target |-> <<"P", "o", "r", "t", "a", "l", ".", "i", "n", ".">>, port |-> 8080, priority |-> 0, weight |-> 0]

\* the result arrays one page of the API may carry
PageResults ==
    { <<>>,
      <<rrU, rrA1, rrA2, rrS>>,
      <<rrW, rrB>>,
      <<rrWb, rrP>> }

\* longest pagination the API is followed through
MaxPages == 2

Envs ==
    { [DOMAINS |-> <<p_nat>>, PORTAL_DOMAIN |-> <<>>,
       CF_API_TOKEN |-> "tok", CF_ZONE_ID |-> "zone",
       PORTAL_PASSWD |-> "", DEFAULT_REDIRECT_STATUS |-> <<>>],
      [DOMAINS |-> <<h_d1>>, PORTAL_DOMAIN |-> h_nat,
       CF_API_TOKEN |-> "tok", CF_ZONE_ID |-> "zone",
       PORTAL_PASSWD |-> "pw", DEFAULT_REDIRECT_STATUS |-> <<"3", "0", "1">>],
      [DOMAINS |-> <<p_nat, h_d1>>, PORTAL_DOMAIN |-> <<>>,
       CF_API_TOKEN |-> "tok", CF_ZONE_ID |-> "",
       PORTAL_PASSWD |-> "pw", DEFAULT_REDIRECT_STATUS |-> <<"9", "9", "9">>],
      [DOMAINS |-> <<>>, PORTAL_DOMAIN |-> <<>>,
       CF_API_TOKEN |-> "tok", CF_ZONE_ID |-> "zone",
       PORTAL_PASSWD |-> "", DEFAULT_REDIRECT_STATUS |-> <<>>] }

\* host names of incoming requests
ReqHosts == {h_nat, h_a, h_s, h_b, h_foo, h_xy, h_web, h_d1}

\* pwd, domain and redirectStatus fields a portal request may carry
Pwds == {"", "pw", "11111111"}
FormDomains == {<<>>, h_a, h_foo}
FormStatuses ==
    { <<>>, <<"3", "0", "7">>, <<"9", "9", "9">>, <<"a", "b", "c">>,
      <<" ", "3", "0", "8", "x">> }

\* values of Date.now() / 1000, on both sides of the TTL
ClockValues ==
    {0, cacheTtl, cacheTtl + 1, cacheTtl + 101, 2 * cacheTtl + 2}

\* request contexts the runtime starts with
Contexts == {1}

----------------------------------------------------------------------------
(* State                                                                   *)

VARIABLES
    env,                  \* the worker's environment bindings (fixed)
    clock,                \* Date.now() / 1000
    srvRecordsCache,      \* globalThis.srvRecordsCache
    customRedirectModes,  \* globalThis.customRedirectModes
    pc,                   \* per request context: where it is suspended
    fetchCtx,             \* per request context: locals held across awaits
    lastResponse          \* what the step just taken returned to the runtime

vars == <<env, clock, srvRecordsCache, customRedirectModes, pc, fetchCtx, lastResponse>>

\* globalThis.srvRecordsCache before initSrvCacheIfEmpty has run
NoCache == [exists |-> FALSE, data |-> <<>>, fetchedAt |-> 0]

\* locals of a context that is not inside ensureSrvRecordsCache
NoCtx == [now |-> 0, page |-> 0, allRecords |-> <<>>]

\* the step just taken returned no response
NoResponse == [kind |-> "None"]

config == initConfig(env)

\* the request contexts of this run
Reqs == DOMAIN pc

Init ==
    /\ env \in Envs
    /\ clock = 0
    /\ srvRecordsCache = NoCache
    /\ customRedirectModes = [h \in {} |-> 0]
    /\ pc = [r \in Contexts |-> "idle"]
    /\ fetchCtx = [r \in Contexts |-> NoCtx]
    /\ lastResponse = NoResponse

\* initSrvCacheIfEmpty()
initSrvCacheIfEmpty(cache) ==
    IF ~cache.exists THEN [exists |-> TRUE, data |-> <<>>, fetchedAt |-> 0]
    ELSE cache

\* the test of fetch(): !config.domainList || length === 0 || !portalDomain
ConfigIncomplete(cfg) == Len(cfg.domainList) = 0 \/ cfg.portalDomain = <<>>

\* HasCredentials with the zone id never looked at
HasCredentialsTokenOnly(cfg) == cfg.cfApiToken # ""

\* config.cfApiToken && config.cfZoneId
HasCredentials(cfg) == cfg.cfApiToken # "" /\ cfg.cfZoneId # ""

\* CacheExpired with >= in place of >
CacheExpiredAtTtl(now, cache, cfg) == now - cache.fetchedAt >= cfg.cacheTtl

\* CacheExpired with the age taken from the epoch, not from fetchedAt
CacheExpiredIgnoringAge(now, cache, cfg) == now > cfg.cacheTtl

\* CacheExpired behind a single-flight guard: no fetch while one is in flight
CacheExpiredSingleFlight(now, cache, cfg) ==
    /\ now - cache.fetchedAt > cfg.cacheTtl
    /\ \A q \in DOMAIN pc : pc[q] # "fetching"

\* the test of ensureSrvRecordsCache: cacheAge > config.cacheTtl
CacheExpired(now, cache, cfg) == now - cache.fetchedAt > cfg.cacheTtl

\* StoreRecords adding the fetched records to the cached ones
StoreRecordsAppend(cache, records, now) ==
    IF Len(records) > 0
    THEN [exists |-> TRUE, data |-> cache.data \o records, fetchedAt |-> now]
    ELSE cache

\* the write of ensureSrvRecordsCache once fetchAllSrvRecords has returned
\* records: if (records && records.length > 0) { data = ...; fetchedAt = now }
StoreRecords(cache, records, now) ==
    IF Len(records) > 0
    THEN [exists |-> TRUE, data |-> records, fetchedAt |-> now]
    ELSE cache

\* UpdateRedirectMode without the test against 301, 302, 307, 308
UpdateRedirectModeUnchecked(modes, domainToUpdate, newRedirectStatus) ==
    IF domainToUpdate # <<>> /\ newRedirectStatus # <<>>
    THEN LET parsedStatus == ParseInt(newRedirectStatus) IN
         [h \in DOMAIN modes \cup {domainToUpdate} |->
             IF h = domainToUpdate THEN parsedStatus.val ELSE modes[h]]
    ELSE modes

\* UpdateRedirectMode assigning a new object that holds the one entry
UpdateRedirectModeFreshObject(modes, domainToUpdate, newRedirectStatus) ==
    IF domainToUpdate # <<>> /\ newRedirectStatus # <<>>
    THEN LET parsedStatus == ParseInt(newRedirectStatus) IN
         IF parsedStatus.nan \/ parsedStatus.val \notin ValidStatuses
         THEN modes
         ELSE [h \in {domainToUpdate} |-> parsedStatus.val]
    ELSE modes

\* the update of handlePortalPageWithAuth for an authenticated request
UpdateRedirectMode(modes, domainToUpdate, newRedirectStatus) ==
    IF domainToUpdate # <<>> /\ newRedirectStatus # <<>>
    THEN LET parsedStatus == ParseInt(newRedirectStatus) IN
         IF parsedStatus.nan \/ parsedStatus.val \notin ValidStatuses
         THEN modes
         ELSE [h \in DOMAIN modes \cup {domainToUpdate} |->
                  IF h = domainToUpdate THEN parsedStatus.val ELSE modes[h]]
    ELSE modes

\* PortalPage applying the update before the password is compared
PortalPageUpdateFirst(hostname, method, userPwd, domainToUpdate, newRedirectStatus) ==
    /\ customRedirectModes' =
           UpdateRedirectMode(customRedirectModes, domainToUpdate, newRedirectStatus)
    /\ lastResponse' =
           IF userPwd # config.portalPasswd
           THEN [kind |-> "PasswordForm", host |-> hostname, status |-> 200,
                 method |-> method]
           ELSE [kind |-> "Portal", host |-> hostname, status |-> 200,
                 method |-> method,
                 domain |-> domainToUpdate,
                 redirectStatus |-> newRedirectStatus]

\* handlePortalPageWithAuth once pwd, domain and redirectStatus are read
\* (formData for POST; for GET only pwd, from the query string)
PortalPage(hostname, method, userPwd, domainToUpdate, newRedirectStatus) ==
    IF userPwd # config.portalPasswd
    THEN /\ lastResponse' = [kind |-> "PasswordForm", host |-> hostname, status |-> 200,
                             method |-> method]
         /\ UNCHANGED customRedirectModes
    ELSE /\ customRedirectModes' =
               UpdateRedirectMode(customRedirectModes, domainToUpdate, newRedirectStatus)
         /\ lastResponse' = [kind |-> "Portal", host |-> hostname, status |-> 200,
                             method |-> method,
                             domain |-> domainToUpdate,
                             redirectStatus |-> newRedirectStatus]

\* Dispatch with a routing step that reads the cache twice: the exact
\* records from cache, and, when there is none, the portal fallback from
\* the data the global held before this step wrote it
DispatchReadingTwice(r, cache) ==
    \E hostname \in ReqHosts :
        IF hostname = config.portalDomain
        THEN \E method \in {"GET", "POST"} :
                IF method = "POST"
                THEN /\ pc' = [pc EXCEPT ![r] = "formData"]
                     /\ lastResponse' = NoResponse
                     /\ UNCHANGED customRedirectModes
                ELSE /\ \E userPwd \in Pwds :
                            PortalPage(hostname, "GET", userPwd, <<>>, <<>>)
                     /\ pc' = [pc EXCEPT ![r] = "idle"]
        ELSE /\ lastResponse' =
                   LET first == handleSrvRedirect(hostname, cache.data,
                                                  customRedirectModes, config)
                   IN  IF first.kind = "ServiceInfo"
                          \/ (first.kind = "Redirect" /\ first.via = "exact")
                       THEN first
                       ELSE handleSrvRedirect(hostname, srvRecordsCache.data,
                                              customRedirectModes, config)
             /\ pc' = [pc EXCEPT ![r] = "idle"]
             /\ UNCHANGED customRedirectModes

\* Dispatch with a routing step that records the status it answered with as
\* the override of the host name
DispatchRecordingStatus(r, cache) ==
    \E hostname \in ReqHosts :
        IF hostname = config.portalDomain
        THEN \E method \in {"GET", "POST"} :
                IF method = "POST"
                THEN /\ pc' = [pc EXCEPT ![r] = "formData"]
                     /\ lastResponse' = NoResponse
                     /\ UNCHANGED customRedirectModes
                ELSE /\ \E userPwd \in Pwds :
                            PortalPage(hostname, "GET", userPwd, <<>>, <<>>)
                     /\ pc' = [pc EXCEPT ![r] = "idle"]
        ELSE /\ lastResponse' =
                   handleSrvRedirect(hostname, cache.data, customRedirectModes, config)
             /\ pc' = [pc EXCEPT ![r] = "idle"]
             /\ customRedirectModes' =
                   IF lastResponse'.kind = "Redirect"
                   THEN [h \in DOMAIN customRedirectModes \cup {hostname} |->
                            IF h = hostname THEN lastResponse'.status
                            ELSE customRedirectModes[h]]
                   ELSE customRedirectModes

\* step 4 of fetch(): dispatch on url.hostname.  cache is the value of
\* globalThis.srvRecordsCache at that point.
Dispatch(r, cache) ==
    \E hostname \in ReqHosts :
        IF hostname = config.portalDomain
        THEN \E method \in {"GET", "POST"} :
                IF method = "POST"
                THEN \* await request.formData()
                     /\ pc' = [pc EXCEPT ![r] = "formData"]
                     /\ lastResponse' = NoResponse
                     /\ UNCHANGED customRedirectModes
                ELSE /\ \E userPwd \in Pwds :
                            PortalPage(hostname, "GET", userPwd, <<>>, <<>>)
                     /\ pc' = [pc EXCEPT ![r] = "idle"]
        ELSE /\ lastResponse' =
                   handleSrvRedirect(hostname, cache.data, customRedirectModes, config)
             /\ pc' = [pc EXCEPT ![r] = "idle"]
             /\ UNCHANGED customRedirectModes

----------------------------------------------------------------------------
(* Actions.  A request's url, method and body are chosen where the code    *)
(* first reads them.                                                       *)

\* time passes
Tick ==
    /\ \E t \in ClockValues : t > clock /\ clock' = t
    /\ lastResponse' = NoResponse
    /\ UNCHANGED <<env, srvRecordsCache, customRedirectModes, pc, fetchCtx>>

\* fetch(): the configuration is incomplete, answer 500
ConfigError(r) ==
    /\ pc[r] = "idle"
    /\ ConfigIncomplete(config)
    /\ lastResponse' = [kind |-> "ConfigError", status |-> 500]
    /\ UNCHANGED <<env, clock, srvRecordsCache, customRedirectModes, pc, fetchCtx>>

\* fetch() without credentials: initSrvCacheIfEmpty(), then dispatch
ReceiveNoCredentials(r) ==
    /\ pc[r] = "idle"
    /\ ~ConfigIncomplete(config)
    /\ ~HasCredentials(config)
    /\ srvRecordsCache' = initSrvCacheIfEmpty(srvRecordsCache)
    /\ Dispatch(r, srvRecordsCache')
    /\ UNCHANGED <<env, clock, fetchCtx>>

\* fetch() with credentials and a cache that has not expired:
\* ensureSrvRecordsCache returns without fetching, then dispatch
ReceiveFresh(r) ==
    /\ pc[r] = "idle"
    /\ ~ConfigIncomplete(config)
    /\ HasCredentials(config)
    /\ ~CacheExpired(clock, initSrvCacheIfEmpty(srvRecordsCache), config)
    /\ srvRecordsCache' = initSrvCacheIfEmpty(srvRecordsCache)
    /\ Dispatch(r, srvRecordsCache')
    /\ UNCHANGED <<env, clock, fetchCtx>>

\* fetch() with credentials and an expired cache: ensureSrvRecordsCache calls
\* fetchAllSrvRecords, which requests page 1 and awaits the response
ReceiveExpired(r) ==
    /\ pc[r] = "idle"
    /\ ~ConfigIncomplete(config)
    /\ HasCredentials(config)
    /\ CacheExpired(clock, initSrvCacheIfEmpty(srvRecordsCache), config)
    /\ srvRecordsCache' = initSrvCacheIfEmpty(srvRecordsCache)
    /\ fetchCtx' = [fetchCtx EXCEPT ![r] = [now |-> clock, page |-> 1, allRecords |-> <<>>]]
    /\ pc' = [pc EXCEPT ![r] = "fetching"]
    /\ lastResponse' = NoResponse
    /\ UNCHANGED <<env, clock, customRedirectModes>>

\* the pagination loop has ended with allRecords: parse, write the cache
\* (ensureSrvRecordsCache), return to fetch() and dispatch
FinishFetch(r, allRecords) ==
    /\ srvRecordsCache' =
           StoreRecords(srvRecordsCache, ParseAll(allRecords), fetchCtx[r].now)
    /\ fetchCtx' = [fetchCtx EXCEPT ![r] = NoCtx]
    /\ Dispatch(r, srvRecordsCache')
    /\ UNCHANGED <<env, clock>>

\* a page arrives with resp.ok and json.success; more pages follow
\* (result_info.page < result_info.total_pages)
PageOkMore(r) ==
    /\ pc[r] = "fetching"
    /\ fetchCtx[r].page < MaxPages
    /\ \E result \in PageResults :
          fetchCtx' = [fetchCtx EXCEPT ![r].allRecords = @ \o result,
                                       ![r].page = @ + 1]
    /\ lastResponse' = NoResponse
    /\ UNCHANGED <<env, clock, srvRecordsCache, customRedirectModes, pc>>

\* a page arrives with resp.ok and json.success and is the last one
PageOkLast(r) ==
    /\ pc[r] = "fetching"
    /\ \E result \in PageResults : FinishFetch(r, fetchCtx[r].allRecords \o result)

\* a page arrives with !resp.ok: break
PageNotOk(r) ==
    /\ pc[r] = "fetching"
    /\ FinishFetch(r, fetchCtx[r].allRecords)

\* a page arrives with resp.ok and !json.success: break
PageNotSuccess(r) ==
    /\ pc[r] = "fetching"
    /\ FinishFetch(r, fetchCtx[r].allRecords)

\* await fetch(pageUrl) rejects (network error): nothing catches it, the
\* exception leaves fetchAllSrvRecords, ensureSrvRecordsCache and fetch()
PageThrows(r) ==
    /\ pc[r] = "fetching"
    /\ pc' = [pc EXCEPT ![r] = "idle"]
    /\ fetchCtx' = [fetchCtx EXCEPT ![r] = NoCtx]
    /\ lastResponse' = [kind |-> "Exception", status |-> 500]
    /\ UNCHANGED <<env, clock, srvRecordsCache, customRedirectModes>>

\* request.formData() resolves in handlePortalPageWithAuth
FormData(r) ==
    /\ pc[r] = "formData"
    /\ \E userPwd \in Pwds, domainToUpdate \in FormDomains, newRedirectStatus \in FormStatuses :
          PortalPage(config.portalDomain, "POST", userPwd, domainToUpdate, newRedirectStatus)
    /\ pc' = [pc EXCEPT ![r] = "idle"]
    /\ UNCHANGED <<env, clock, srvRecordsCache, fetchCtx>>

Next ==
    \/ Tick
    \/ \E r \in Reqs : ConfigError(r)
    \/ \E r \in Reqs : ReceiveNoCredentials(r)
    \/ \E r \in Reqs : ReceiveFresh(r)
    \/ \E r \in Reqs : ReceiveExpired(r)
    \/ \E r \in Reqs : PageOkMore(r)
    \/ \E r \in Reqs : PageOkLast(r)
    \/ \E r \in Reqs : PageNotOk(r)
    \/ \E r \in Reqs : PageNotSuccess(r)
    \/ \E r \in Reqs : PageThrows(r)
    \/ \E r \in Reqs : FormData(r)

Spec == Init /\ [][Next]_vars

\* Spec with the scheduling the runtime guarantees: time passes and a
\* request body that is being read arrives.  Whether and when the DNS API
\* answers a page request is not up to the worker, and neither is the
\* arrival of a new request.
FairSpec ==
    /\ Spec
    /\ WF_vars(Tick)
    /\ \A r \in Contexts : WF_vars(FormData(r))

----------------------------------------------------------------------------

(* Pure functions applied on their own.  The matcher, the record parser    *)
(* and the routing function read nothing but their arguments; the steps    *)
(* below apply them to arguments drawn from bounded sets and leave the     *)
(* result, with the arguments, in lastResponse; a run applies one of them  *)
(* once.                                                                   *)

\* all strings over the characters of S of length at most n
StringsUpTo(S, n) == UNION {[1..k -> S] : k \in 0..n}

\* longest pattern and longest host name enumerated exhaustively
MaxPatternLen == 4
MaxHostLen == 4

\* domain patterns (entries of DOMAINS, never empty) with at most one "*"
MatchPatterns ==
    {p \in StringsUpTo({"a", ".", "*"}, MaxPatternLen) :
        p # <<>> /\ Cardinality({i \in DOMAIN p : p[i] = "*"}) <= 1}
      \cup {p_nat, h_d1}

\* host names the matcher is applied to
MatchHosts == StringsUpTo({"a", "b", "."}, MaxHostLen) \cup {h_nat, h_a, h_xy, h_d1}

\* wildcardToRegex(pattern).test(h)
ApplyMatcher ==
    /\ lastResponse = NoResponse
    /\ \E pattern \in MatchPatterns, h \in MatchHosts :
          lastResponse' = [kind |-> "Match", pattern |-> pattern, host |-> h,
                           accepted |-> RegexTest(wildcardToRegex(pattern), h)]
    /\ UNCHANGED <<env, clock, srvRecordsCache, customRedirectModes, pc, fetchCtx>>

\* service labels of the one record handleSrvRedirect is applied to
RouteServices ==
    { c_ssh, c_sftp, c_rdp, c_vnc, c_http,
      <<"_", "S", "S", "H">>,
      <<"_", "s", "s", "h", "f", "s">>,
      <<"x", "_", "r", "d", "p">>,
      <<"_", "s", "f", "t", "p", "_", "s", "s", "h">>,
      <<"_", "i", "m", "a", "p">> }

\* contents of the override store handleSrvRedirect is applied to
RouteModes == { [h \in {} |-> 0], [h \in {h_s} |-> 307] }

\* handleSrvRedirect for a request to hostname, with a cache of one record
\* of the given service for s.nat.ex
ApplyRoute ==
    /\ lastResponse = NoResponse
    /\ ~ConfigIncomplete(config)
    /\ \E service \in RouteServices, modes \in RouteModes, hostname \in {h_s, h_foo} :
          LET records == ParseAll(<<[name |-> service \o s_tcp \o h_s, target |-> t_one,
                                     port |-> 22, priority |-> 0, weight |-> 0]>>)
          IN  lastResponse' =
                  [kind |-> "Route", hostname |-> hostname, records |-> records,
                   modes |-> modes,
                   decision |-> handleSrvRedirect(hostname, records, modes, config)]
    /\ UNCHANGED <<env, clock, srvRecordsCache, customRedirectModes, pc, fetchCtx>>

\* longest record name enumerated exhaustively
MaxNameLen == 5

\* record names the parser is applied to: every string of a, b and "." up
\* to MaxNameLen, the names of the API result items, and _http._tcp
ParseNames ==
    StringsUpTo({"a", "b", "."}, MaxNameLen)
      \cup {rrA1.name, rrW.name, rrS.name, c_http \o <<".", "_", "t", "c", "p">>}

\* parseSrvName(name)
ApplyParse ==
    /\ lastResponse = NoResponse
    /\ \E name \in ParseNames :
          lastResponse' = [kind |-> "Parse", name |-> name,
                           parsed |-> parseSrvName(name)]
    /\ UNCHANGED <<env, clock, srvRecordsCache, customRedirectModes, pc, fetchCtx>>

\* data.priority and data.weight of the records selection is applied to
SelectPriorities == {0, 10}
SelectWeights == {0, 5}

\* the records for s.nat.ex that selection is applied to, but for their
\* priority and weight: a web one and a non-web one
SelectKinds ==
    { [name |-> c_http \o s_tcp \o h_s, target |-> t_one, port |-> 8080],
      [name |-> c_ssh \o s_tcp \o h_s, target |-> t_two, port |-> 22] }

\* the result item of kind k with priority and weight pw
SelectItem(k, pw) ==
    [name |-> k.name, target |-> k.target, port |-> k.port,
     priority |-> pw.priority, weight |-> pw.weight]

\* handleSrvRedirect for a request to s.nat.ex with a cache that holds a
\* record for a.nat.ex and then two records for s.nat.ex, applied a second
\* time to the same records in the same order with other priorities and
\* weights
ApplySelect ==
    /\ lastResponse = NoResponse
    /\ ~ConfigIncomplete(config)
    /\ \E kinds \in [2..3 -> SelectKinds],
          pw \in [2..3 -> [priority : SelectPriorities, weight : SelectWeights]],
          pwAfter \in [1..3 -> [priority : SelectPriorities, weight : SelectWeights]] :
          LET records == ParseAll(<<rrA1, SelectItem(kinds[2], pw[2]),
                                    SelectItem(kinds[3], pw[3])>>)
              recordsAfter ==
                  ParseAll(<<SelectItem(rrA1, pwAfter[1]),
                             SelectItem(kinds[2], pwAfter[2]),
                             SelectItem(kinds[3], pwAfter[3])>>)
          IN  lastResponse' =
                  [kind |-> "Select", hostname |-> h_s, records |-> records,
                   decision |-> handleSrvRedirect(h_s, records, customRedirectModes, config),
                   decisionAfter |->
                       handleSrvRedirect(h_s, recordsAfter, customRedirectModes, config)]
    /\ UNCHANGED <<env, clock, srvRecordsCache, customRedirectModes, pc, fetchCtx>>

FnNext ==
    \/ ApplyMatcher
    \/ ApplyRoute
    \/ ApplySelect
    \/ ApplyParse

FnSpec == Init /\ [][FnNext]_vars

----------------------------------------------------------------------------

(* Two requests in flight.  The runtime may start a second request while   *)
(* the first is suspended at an await; the steps are those of Next, taken  *)
(* by either context.  The requests' inputs are narrowed to keep two       *)
(* contexts explorable: one specification follows concurrent refreshes,    *)
(* the other concurrent portal requests.                                   *)

\* two request contexts
TwoContexts == {1, 2}

\* the state after construction with two request contexts, environment e
TwoInit(e) ==
    /\ env = e
    /\ clock = 0
    /\ srvRecordsCache = NoCache
    /\ customRedirectModes = [h \in {} |-> 0]
    /\ pc = [r \in TwoContexts |-> "idle"]
    /\ fetchCtx = [r \in TwoContexts |-> NoCtx]
    /\ lastResponse = NoResponse

\* the environment of concurrent refreshes: DOMAINS *.nat.ex with
\* credentials
RefreshEnv ==
    [DOMAINS |-> <<p_nat>>, PORTAL_DOMAIN |-> <<>>,
     CF_API_TOKEN |-> "tok", CF_ZONE_ID |-> "zone",
     PORTAL_PASSWD |-> "", DEFAULT_REDIRECT_STATUS |-> <<>>]

\* records, request host names and instants of concurrent refreshes
RefreshRecords == {rrW, rrB, rrWb, rrP}
RefreshHosts == {h_foo, h_web}
RefreshClockValues == {0, cacheTtl + 1, cacheTtl + 101}

\* the state holds only the inputs of concurrent refreshes: requests are
\* for RefreshHosts (none for the portal), pages carry RefreshRecords, the
\* clock shows RefreshClockValues
RefreshInputs ==
    /\ clock \in RefreshClockValues
    /\ lastResponse.kind \notin {"Portal", "PasswordForm"}
    /\ "host" \in DOMAIN lastResponse => lastResponse.host \in RefreshHosts
    /\ \A r \in Reqs :
          /\ pc[r] # "formData"
          /\ \A i \in 1..Len(fetchCtx[r].allRecords) :
                fetchCtx[r].allRecords[i] \in RefreshRecords
    /\ \A i \in 1..Len(srvRecordsCache.data) :
          srvRecordsCache.data[i].originalName \in {rec.name : rec \in RefreshRecords}

RefreshNext ==
    \/ Tick /\ RefreshInputs'
    \/ \E r \in Reqs : ReceiveFresh(r) /\ RefreshInputs'
    \/ \E r \in Reqs : ReceiveExpired(r) /\ RefreshInputs'
    \/ \E r \in Reqs : PageOkMore(r) /\ RefreshInputs'
    \/ \E r \in Reqs : PageOkLast(r) /\ RefreshInputs'
    \/ \E r \in Reqs : PageNotOk(r) /\ RefreshInputs'
    \/ \E r \in Reqs : PageNotSuccess(r) /\ RefreshInputs'
    \/ \E r \in Reqs : PageThrows(r) /\ RefreshInputs'

RefreshSpec == TwoInit(RefreshEnv) /\ [][RefreshNext]_vars

----------------------------------------------------------------------------

(* Concurrent administrative requests.  Two request contexts post to the  *)
(* portal of a worker without API credentials; each is suspended at        *)
(* await request.formData() and they resume in either order.               *)

\* the environment of concurrent administrative requests: DOMAINS
\* *.nat.ex,d1.ex, portal nat.ex with password pw, no zone id
AdminEnv ==
    [DOMAINS |-> <<p_nat, h_d1>>, PORTAL_DOMAIN |-> <<>>,
     CF_API_TOKEN |-> "tok", CF_ZONE_ID |-> "",
     PORTAL_PASSWD |-> "pw", DEFAULT_REDIRECT_STATUS |-> <<"9", "9", "9">>]

AdminNext ==
    \/ \E r \in Reqs : ReceiveNoCredentials(r)
    \/ \E r \in Reqs : FormData(r)

AdminSpec == TwoInit(AdminEnv) /\ [][AdminNext]_vars

----------------------------------------------------------------------------

(* Claims                                                                  *)

\* the responses handleSrvRedirect produces
RoutingKinds == {"Redirect", "ServiceInfo", "NotFound"}

\* the fetch of context r ends in this step having returned zero records
ZeroRecords(r) ==
    /\ pc[r] = "fetching"
    /\ fetchCtx[r].allRecords = <<>>
    /\ FinishFetch(r, <<>>)

\* C1: whenever a refresh is attempted and the upstream fetch fails (non-2xx
\* response, success=false, network error) or returns zero records, the
\* cache's data and fetchedAt are left exactly as they were; and a cache that
\* holds records never becomes empty again.
C1_FailedRefreshLeavesCache ==
    [][ /\ \A r \in Reqs :
              (PageNotOk(r) \/ PageNotSuccess(r) \/ PageThrows(r) \/ ZeroRecords(r))
                  => /\ srvRecordsCache'.data = srvRecordsCache.data
                     /\ srvRecordsCache'.fetchedAt = srvRecordsCache.fetchedAt
        /\ srvRecordsCache.data # <<>> => srvRecordsCache'.data # <<>>
      ]_vars

\* C2: whatever the outcome of the upstream fetch, the step that ends the
\* fetch of a request raises no error: the request is dispatched, to a
\* routing decision or to the portal handler.
C2_FetchOutcomeNeverRaises ==
    [][ \A r \in Reqs :
            (pc[r] = "fetching" /\ pc'[r] # "fetching")
                => \/ lastResponse'.kind \in RoutingKinds \cup {"Portal", "PasswordForm"}
                   \/ pc'[r] = "formData"
      ]_vars

\* C3: when a page after the first returns a non-2xx response or
\* success=false, the records accumulated from the earlier pages are
\* discarded: the cache's data and fetchedAt keep their previous values.
C3_PartialResultDiscarded ==
    [][ \A r \in Reqs :
            (fetchCtx[r].page > 1 /\ (PageNotOk(r) \/ PageNotSuccess(r)))
                => /\ srvRecordsCache'.data = srvRecordsCache.data
                   /\ srvRecordsCache'.fetchedAt = srvRecordsCache.fetchedAt
      ]_vars

\* a status code the override store and the default accept
IsRedirectStatus(n) == n = 301 \/ n = 302 \/ n = 307 \/ n = 308

\* the number a status field is read as; 0 when it reads as no number
StatusOf(field) ==
    LET p == ParseInt(field) IN IF p.nan THEN 0 ELSE p.val

\* the default status the environment configures: 302 when
\* DEFAULT_REDIRECT_STATUS is unset or is not 301, 302, 307 or 308
ConfiguredDefault ==
    IF IsRedirectStatus(StatusOf(env.DEFAULT_REDIRECT_STATUS))
    THEN StatusOf(env.DEFAULT_REDIRECT_STATUS)
    ELSE 302

\* this step is a valid set(h, s) by an authenticated portal request
ValidSetStep(h, st) ==
    /\ lastResponse'.kind = "Portal"
    /\ lastResponse'.domain = h
    /\ StatusOf(lastResponse'.redirectStatus) = st
    /\ IsRedirectStatus(st)

C5_InvalidStatusIgnored ==
    [][ ( /\ lastResponse'.kind = "Portal"
          /\ lastResponse'.method = "POST"
          /\ ~IsRedirectStatus(StatusOf(lastResponse'.redirectStatus)) )
            => customRedirectModes' = customRedirectModes
      ]_vars

\* C5 witness: an authenticated set with status 999 has been answered for a
\* host name that keeps its earlier override
C5_Witness ==
    /\ lastResponse.kind = "Portal"
    /\ lastResponse.domain # <<>>
    /\ lastResponse.redirectStatus = <<"9", "9", "9">>
    /\ lastResponse.domain \in DOMAIN customRedirectModes

\* C6: a request whose host name is matched by none of the configured
\* domain patterns receives NotFound, whatever the cache and the override
\* store hold.
C6_UnmatchedHostNotFound ==
    ( /\ lastResponse.kind \in RoutingKinds
      /\ ~\E i \in 1..Len(env.DOMAINS) :
             RegexTest(wildcardToRegex(env.DOMAINS[i]), lastResponse.host) )
        => lastResponse.kind = "NotFound"

\* no pattern-matched record of the cache has host name h
NoExactRecord(h) ==
    ~\E i \in 1..Len(srvRecordsCache.data) :
        /\ srvRecordsCache.data[i].hostname = h
        /\ MatchesDomainList(config.domainList, h)

\* h is <label>.<portalDomain> with a non-empty label that holds no dot
IsPortalLabelHost(h) ==
    LET hl == Split(h)
        pl == Split(config.portalDomain)
    IN  /\ Len(hl) = Len(pl) + 1
        /\ hl[1] # <<>>
        /\ Tail(hl) = pl

\* record rec has host name web.<portalDomain> and a service starting _http
IsPortalWebRecord(rec) ==
    /\ rec.hostname = <<"w", "e", "b", ".">> \o config.portalDomain
    /\ Len(rec.service) >= 5
    /\ SubSeq(rec.service, 1, 5) = <<"_", "h", "t", "t", "p">>

\* the length of the prefix web. or portal. of target t, compared without
\* case; 0 when t has neither
PortalPrefixLen(t) ==
    LET l == ToLowerCase(t) IN
    IF Len(l) >= 4 /\ SubSeq(l, 1, 4) = <<"w", "e", "b", ".">> THEN 4
    ELSE IF Len(l) >= 7 /\ SubSeq(l, 1, 7) = <<"p", "o", "r", "t", "a", "l", ".">> THEN 7
    ELSE 0

\* the redirect the portal fallback gives for host name h from record rec
IsFallbackRedirectFrom(resp, h, rec) ==
    /\ resp.kind = "Redirect"
    /\ resp.target = Split(h)[1] \o <<".">>
                       \o SubSeq(rec.target, PortalPrefixLen(rec.target) + 1, Len(rec.target))
    /\ resp.port = rec.port
    /\ resp.scheme = determineIfWebService(rec.service, rec.protocol).scheme

\* C7 as stated: without an exact record for h, the answer is a redirect if
\* and only if h is <label>.<portalDomain> and the cache holds some record
\* for web.<portalDomain> with an _http service whose target begins with
\* web. or portal.; the redirect is then built from that record, and every
\* other answer is NotFound.
C7_FallbackIffSomeRecord ==
    (lastResponse.kind \in RoutingKinds /\ NoExactRecord(lastResponse.host))
      => LET h == lastResponse.host
             ok == {i \in 1..Len(srvRecordsCache.data) :
                       /\ IsPortalWebRecord(srvRecordsCache.data[i])
                       /\ PortalPrefixLen(srvRecordsCache.data[i].target) > 0}
         IN  IF IsPortalLabelHost(h) /\ ok # {}
             THEN \E i \in ok : IsFallbackRedirectFrom(lastResponse, h, srvRecordsCache.data[i])
             ELSE lastResponse.kind = "NotFound"

\* C7 amended: the same, with the record being the first one in cache order
\* for web.<portalDomain> with an _http service: the redirect is given if
\* and only if the target of that first record begins with web. or portal.
C7_FallbackIffFirstRecord ==
    (lastResponse.kind \in RoutingKinds /\ NoExactRecord(lastResponse.host))
      => LET h == lastResponse.host
             web == {i \in 1..Len(srvRecordsCache.data) :
                        IsPortalWebRecord(srvRecordsCache.data[i])}
             first == CHOOSE i \in web : \A j \in web : i <= j
         IN  IF /\ IsPortalLabelHost(h)
                /\ web # {}
                /\ PortalPrefixLen(srvRecordsCache.data[first].target) > 0
             THEN IsFallbackRedirectFrom(lastResponse, h, srvRecordsCache.data[first])
             ELSE lastResponse.kind = "NotFound"

\* C7 witness: the fallback has redirected a request
C7_Witness ==
    /\ lastResponse.kind = "Redirect"
    /\ lastResponse.via = "fallback"
    /\ NoExactRecord(lastResponse.host)
    /\ IsPortalLabelHost(lastResponse.host)

\* the first pattern-matched record of the cache with host name h
\* (0 when there is none)
ExactRecordIndex(h) ==
    LET hits == {i \in 1..Len(srvRecordsCache.data) :
                    /\ srvRecordsCache.data[i].hostname = h
                    /\ MatchesDomainList(config.domainList, h)}
    IN  IF hits = {} THEN 0 ELSE CHOOSE i \in hits : \A j \in hits : i <= j

\* C8: the selected record is web if and only if its service, compared
\* without case, starts with _http; a web record's scheme is https if the
\* service starts with _https or if the protocol or the service contains
\* tls, and http otherwise.
C8_WebClassification ==
    (lastResponse.kind \in RoutingKinds /\ ExactRecordIndex(lastResponse.host) # 0)
      => LET rec == srvRecordsCache.data[ExactRecordIndex(lastResponse.host)]
             svc == ToLowerCase(rec.service)
             tls == <<"t", "l", "s">>
         IN  IF StartsWith(svc, <<"_", "h", "t", "t", "p">>)
             THEN /\ lastResponse.kind = "Redirect"
                  /\ lastResponse.scheme =
                        IF \/ StartsWith(svc, <<"_", "h", "t", "t", "p", "s">>)
                           \/ Includes(ToLowerCase(rec.protocol), tls)
                           \/ Includes(svc, tls)
                        THEN "https"
                        ELSE "http"
             ELSE lastResponse.kind = "ServiceInfo"

\* context r takes a request through ensureSrvRecordsCache in this step: it
\* is idle, the configuration is complete with credentials, and the step
\* either suspends r or returns a response while no other context moves
EnsureFreshStep(r) ==
    /\ pc[r] = "idle"
    /\ ~ConfigIncomplete(config)
    /\ HasCredentials(config)
    /\ pc'[r] # "idle" \/ lastResponse' # NoResponse
    /\ \A q \in Reqs \ {r} : pc'[q] = pc[q]

InitialCache == srvRecordsCache.data = <<>> /\ srvRecordsCache.fetchedAt = 0

\* the parts of C10 about later calls: once records are cached, a call 100
\* seconds after fetchedAt issues no fetch, and a call 301 seconds after it
\* issues one
LaterCalls(r) ==
    /\ (srvRecordsCache.data # <<>> /\ clock = srvRecordsCache.fetchedAt + 100)
          => pc'[r] # "fetching"
    /\ (srvRecordsCache.data # <<>> /\ clock = srvRecordsCache.fetchedAt + 301)
          => pc'[r] = "fetching"

CredentialsAbsent == env.CF_API_TOKEN = "" \/ env.CF_ZONE_ID = ""

C12_FetchEventuallyAbandoned ==
    \A r \in Contexts : (pc[r] = "fetching") ~> (pc[r] # "fetching")

\* C20: every value held in the override store is 301, 302, 307 or 308,
\* the default status the configuration yields is one of them whatever
\* DEFAULT_REDIRECT_STATUS holds, and every redirect, exact or by the
\* portal fallback, carries one of them.
C20_StatusesAlwaysValid ==
    /\ \A h \in DOMAIN customRedirectModes : IsRedirectStatus(customRedirectModes[h])
    /\ IsRedirectStatus(config.defaultRedirectStatus)
    /\ lastResponse.kind = "Redirect" => IsRedirectStatus(lastResponse.status)

\* C20 witness: after sets for two host names a portal-fallback redirect
\* has been answered with the override 308 of its host name
C20_Witness ==
    /\ Cardinality(DOMAIN customRedirectModes) = 2
    /\ lastResponse.kind = "Redirect"
    /\ lastResponse.via = "fallback"
    /\ lastResponse.host \in DOMAIN customRedirectModes
    /\ lastResponse.status = 308

\* H equals P with its "*" replaced by some string s: zero or more
\* characters of any kind, taken from H itself
EqualsWithStarReplaced(P, H) ==
    LET stars == {i \in 1..Len(P) : P[i] = "*"} IN
    IF stars = {} THEN H = P
    ELSE LET k == CHOOSE i \in stars : TRUE IN
         \E a \in 0..Len(H) : \E b \in a..Len(H) :
            H = SubSeq(P, 1, k - 1) \o SubSeq(H, a + 1, b) \o SubSeq(P, k + 1, Len(P))

\* C14: for a pattern P with at most one "*" the matcher accepts a host
\* name H if and only if H equals P with the "*" replaced by some string of
\* zero or more characters, dots allowed; a pattern without "*" accepts
\* exactly itself.
C14_MatcherIsStarSubstitution ==
    lastResponse.kind = "Match"
      => (lastResponse.accepted
            <=> EqualsWithStarReplaced(lastResponse.pattern, lastResponse.host))

\* C14 witness: *.nat.ex has been applied to x.y.nat.ex, whose "*" part
\* holds a dot, and accepted it
C14_Witness ==
    /\ lastResponse.kind = "Match"
    /\ lastResponse.pattern = p_nat
    /\ lastResponse.host = h_xy
    /\ lastResponse.accepted

\* handleSrvRedirect has been applied to a request whose host name is that
\* of the record and is under a configured pattern, and the record is not
\* web (its service does not start with _http)
NonWebSelected ==
    /\ lastResponse.kind = "Route"
    /\ lastResponse.records[1].hostname = lastResponse.hostname
    /\ \E i \in 1..Len(env.DOMAINS) :
          EqualsWithStarReplaced(env.DOMAINS[i], lastResponse.hostname)
    /\ ~StartsWith(ToLowerCase(lastResponse.records[1].service), <<"_", "h", "t", "t", "p">>)

\* the link scheme://target:port of the record handleSrvRedirect was
\* applied to
LinkOf(scheme) ==
    [scheme |-> scheme,
     target |-> lastResponse.records[1].target,
     port   |-> lastResponse.records[1].port]

\* C15 as stated: a non-web selected record gives ServiceInfo, never a
\* redirect, whatever the override store holds; the local link is
\* ssh://target:port for service _ssh, sftp:// for _sftp, rdp:// for _rdp,
\* vnc:// for _vnc (compared without case) and there is none for any other
\* service.
C15_LinkByServiceName ==
    NonWebSelected
      => LET s == ToLowerCase(lastResponse.records[1].service) IN
         /\ lastResponse.decision.kind = "ServiceInfo"
         /\ lastResponse.decision.link =
              IF s = <<"_", "s", "s", "h">> THEN LinkOf("ssh")
              ELSE IF s = <<"_", "s", "f", "t", "p">> THEN LinkOf("sftp")
              ELSE IF s = <<"_", "r", "d", "p">> THEN LinkOf("rdp")
              ELSE IF s = <<"_", "v", "n", "c">> THEN LinkOf("vnc")
              ELSE [scheme |-> ""]

\* sub occurs in s
Contains(s, sub) ==
    \E a \in 0..Len(s) : \E b \in a..Len(s) : SubSeq(s, a + 1, b) = sub

\* C15 amended: a non-web selected record gives ServiceInfo, never a
\* redirect, whatever the override store holds; the local link is
\* ssh://target:port when the service, lower-cased, contains _ssh, else
\* sftp:// when it contains _sftp, else rdp:// when it contains _rdp, else
\* vnc:// when it contains _vnc, and there is none otherwise.
C15_LinkByServiceSubstring ==
    NonWebSelected
      => LET s == ToLowerCase(lastResponse.records[1].service) IN
         /\ lastResponse.decision.kind = "ServiceInfo"
         /\ lastResponse.decision.link =
              IF Contains(s, <<"_", "s", "s", "h">>) THEN LinkOf("ssh")
              ELSE IF Contains(s, <<"_", "s", "f", "t", "p">>) THEN LinkOf("sftp")
              ELSE IF Contains(s, <<"_", "r", "d", "p">>) THEN LinkOf("rdp")
              ELSE IF Contains(s, <<"_", "v", "n", "c">>) THEN LinkOf("vnc")
              ELSE [scheme |-> ""]

\* C15 witness: with an override stored for its host name, a record of
\* service _sftp_ssh has been answered with ServiceInfo and an ssh link
C15_Witness ==
    /\ NonWebSelected
    /\ lastResponse.hostname \in DOMAIN lastResponse.modes
    /\ lastResponse.records[1].service = <<"_", "s", "f", "t", "p", "_", "s", "s", "h">>
    /\ lastResponse.decision.kind = "ServiceInfo"
    /\ lastResponse.decision.link.scheme = "ssh"

\* another context is inside fetchAllSrvRecords, its result not yet written
FetchInFlightBeside(r) == \E q \in Reqs \ {r} : pc[q] = "fetching"

\* C16: a request that evaluates the freshness check on an expired cache
\* while another request's fetch is still in flight issues its own upstream
\* fetch: there is no single-flight guard.
C16_NoSingleFlightGuard ==
    [][ \A r \in Reqs :
            ( /\ EnsureFreshStep(r)
              /\ FetchInFlightBeside(r)
              /\ clock - srvRecordsCache.fetchedAt > cacheTtl )
              => /\ pc'[r] = "fetching"
                 /\ FetchInFlightBeside(r)'
      ]_vars

\* C16 witness: two record-source fetches are in flight at the same time,
\* both started from the same unwritten cache
C16_Witness ==
    /\ pc[1] = "fetching"
    /\ pc[2] = "fetching"
    /\ srvRecordsCache.data = <<>>
    /\ srvRecordsCache.fetchedAt = 0

\* this step ends the fetch of context r, and fetchAllSrvRecords returns
\* the parsed records of the pages r collected (with the page that arrives
\* in this step, if one does)
FetchReturns(r, records) ==
    /\ pc[r] = "fetching"
    /\ pc'[r] = "idle"
    /\ \E result \in PageResults \cup {<<>>} :
          records = ParseAll(fetchCtx[r].allRecords \o result)

\* C17: under any interleaving of concurrent refreshes the cache's data is
\* the initial empty list or the complete record list returned by one single
\* fetch call, never a mixture of two fetches, and data and fetchedAt are
\* the pair written together by that refresh: every step that changes
\* either of them replaces data by the whole list one call returned and
\* fetchedAt by the instant that same call was started at.
C17_WholeSnapshotReplacement ==
    [][ /\ ( \/ srvRecordsCache'.data # srvRecordsCache.data
             \/ srvRecordsCache'.fetchedAt # srvRecordsCache.fetchedAt )
              => \E r \in Reqs :
                    /\ FetchReturns(r, srvRecordsCache'.data)
                    /\ srvRecordsCache'.data # <<>>
                    /\ srvRecordsCache'.fetchedAt = fetchCtx[r].now
        /\ srvRecordsCache.data = <<>> <=> srvRecordsCache.fetchedAt = 0
      ]_vars

\* C17 witness: of two refreshes started at the same instant one has
\* written its records and the other is still collecting pages, holding
\* records of its own
C17_Witness ==
    /\ srvRecordsCache.data # <<>>
    /\ \E r \in Reqs :
          /\ pc[r] = "fetching"
          /\ fetchCtx[r].allRecords # <<>>
          /\ fetchCtx[r].now = srvRecordsCache.fetchedAt

\* the first record of the cache for web.<portalDomain> with an _http
\* service (0 when there is none)
PortalWebRecordIndex ==
    LET web == {i \in 1..Len(srvRecordsCache.data) :
                   IsPortalWebRecord(srvRecordsCache.data[i])}
    IN  IF web = {} THEN 0 ELSE CHOOSE i \in web : \A j \in web : i <= j

\* C18: a routing decision is computed from one snapshot of the cache's
\* data: whatever refreshes other requests have in flight or have completed,
\* the exact-hostname selection and the portal-fallback lookup of a decision
\* both agree with the one list the cache holds when the decision is
\* returned, and a decision never holds a record of another list.
C18_DecisionFromOneSnapshot ==
    lastResponse.kind \in RoutingKinds
      => LET h == lastResponse.host
             x == ExactRecordIndex(h)
             w == PortalWebRecordIndex
         IN  IF x # 0
             THEN /\ lastResponse.kind \in {"Redirect", "ServiceInfo"}
                  /\ lastResponse.kind = "Redirect" => lastResponse.via = "exact"
                  /\ lastResponse.target = srvRecordsCache.data[x].target
                  /\ lastResponse.port = srvRecordsCache.data[x].port
             ELSE IF /\ IsPortalLabelHost(h)
                     /\ w # 0
                     /\ PortalPrefixLen(srvRecordsCache.data[w].target) > 0
                  THEN /\ IsFallbackRedirectFrom(lastResponse, h, srvRecordsCache.data[w])
                       /\ lastResponse.via = "fallback"
                  ELSE lastResponse.kind = "NotFound"

\* C18 witness: a decision has been returned from the records one refresh
\* wrote while another request's refresh is in flight, holding records that
\* differ from the cached ones
C18_Witness ==
    /\ lastResponse.kind = "Redirect"
    /\ srvRecordsCache.data # <<>>
    /\ \E r \in Reqs :
          /\ pc[r] = "fetching"
          /\ fetchCtx[r].allRecords # <<>>
          /\ ParseAll(fetchCtx[r].allRecords) # srvRecordsCache.data

\* C19: the cache's fetchedAt never decreases: under any interleaving of
\* concurrent refreshes every write to fetchedAt stores a value greater than
\* or equal to the one it replaces, so a refresh that started earlier never
\* overwrites the timestamp and data written by one that started later.
C19_FetchedAtNeverDecreases ==
    [][ srvRecordsCache'.fetchedAt >= srvRecordsCache.fetchedAt ]_vars

\* C13: override entries are never removed and never expire, under any
\* interleaving of concurrent administrative requests: no step takes a host
\* name out of the store, a step that applies a valid set(h, s) leaves s as
\* the override of h (the last write wins), and every other entry keeps
\* its value.  A set names a host: a form without a domain field sets
\* nothing.
C13_OverridesKeptLastWriteWins ==
    [][ /\ DOMAIN customRedirectModes \subseteq DOMAIN customRedirectModes'
        /\ \A h \in DOMAIN customRedirectModes' :
              IF \E st \in ValidStatuses : ValidSetStep(h, st)
              THEN ValidSetStep(h, customRedirectModes'[h])
              ELSE /\ h \in DOMAIN customRedirectModes
                   /\ customRedirectModes'[h] = customRedirectModes[h]
        /\ \A h \in FormDomains \ {<<>>}, st \in ValidStatuses :
              ValidSetStep(h, st) => h \in DOMAIN customRedirectModes'
      ]_vars

\* C13 witness: of two administrative requests in flight one has just set
\* the override of a.nat.ex to 308, the store still holds the override set
\* earlier for foo.nat.ex, and the other request has yet to resume
C13_Witness ==
    /\ lastResponse.kind = "Portal"
    /\ lastResponse.domain = h_a
    /\ StatusOf(lastResponse.redirectStatus) = 308
    /\ h_a \in DOMAIN customRedirectModes
    /\ customRedirectModes[h_a] = 308
    /\ h_foo \in DOMAIN customRedirectModes
    /\ \E r \in Reqs : pc[r] = "formData"

\* C21: computing a routing decision for a non-portal host name changes
\* neither the cache (data, fetchedAt) nor the override store: a step that
\* returns a decision leaves the store as it is and leaves the cache as the
\* freshness step of the same request left it; the cache is written only by
\* a refresh that returned records, and the store only by the portal's
\* administrative update.
C21_RoutingChangesNothing ==
    [][ /\ lastResponse'.kind \in RoutingKinds
              => /\ customRedirectModes' = customRedirectModes
                 /\ (\A r \in Reqs : pc[r] # "fetching")
                       => /\ srvRecordsCache'.data = srvRecordsCache.data
                          /\ srvRecordsCache'.fetchedAt = srvRecordsCache.fetchedAt
        /\ ( \/ srvRecordsCache'.data # srvRecordsCache.data
             \/ srvRecordsCache'.fetchedAt # srvRecordsCache.fetchedAt )
              => \E r \in Reqs :
                    /\ pc[r] = "fetching"
                    /\ pc'[r] # "fetching"
                    /\ srvRecordsCache'.data # <<>>
        /\ customRedirectModes' # customRedirectModes
              => /\ lastResponse'.kind = "Portal"
                 /\ lastResponse'.host = config.portalDomain
      ]_vars

\* C21 witness: a decision has been returned for a non-portal host name
\* while the cache holds records and the store holds an override
C21_Witness ==
    /\ lastResponse.kind \in RoutingKinds
    /\ lastResponse.host # config.portalDomain
    /\ srvRecordsCache.data # <<>>
    /\ DOMAIN customRedirectModes # {}

\* the records of recs for host name h that the domain list matches, as
\* positions in recs
ExactHits(recs, h) ==
    {i \in 1..Len(recs) :
        recs[i].hostname = h /\ MatchesDomainList(config.domainList, h)}

\* C22: when several pattern-matched records have the request's host name,
\* the decision is derived from the one that comes first in cache order;
\* changing the priority or weight of any record, the order kept, never
\* changes the decision.
C22_FirstInCacheOrder ==
    lastResponse.kind = "Select"
      => LET hits == ExactHits(lastResponse.records, lastResponse.hostname)
             d == lastResponse.decision
         IN  /\ d = lastResponse.decisionAfter
             /\ hits # {}
                  => LET first == lastResponse.records[CHOOSE i \in hits :
                                                           \A j \in hits : i <= j]
                     IN  /\ d.kind \in {"Redirect", "ServiceInfo"}
                         /\ d.target = first.target
                         /\ d.port = first.port
                         /\ d.kind = "Redirect"
                              <=> determineIfWebService(first.service, first.protocol).isWeb

\* C22 witness: of two matched records for the request's host name the
\* first has the higher priority value and another target than the second,
\* and a decision has been derived
C22_Witness ==
    /\ lastResponse.kind = "Select"
    /\ ExactHits(lastResponse.records, lastResponse.hostname) = {2, 3}
    /\ lastResponse.records[2].priority > lastResponse.records[3].priority
    /\ lastResponse.records[2].target # lastResponse.records[3].target
    /\ lastResponse.decision.target = lastResponse.records[2].target

\* C23: the override store is changed only by a portal request that
\* supplies the correct portal password: a request with a missing or wrong
\* password, which is answered with the password form, leaves the store
\* unchanged whatever domain and redirectStatus fields it carries, and a
\* step that changes the store is a post answered with the portal page.
C23_StoreNeedsPassword ==
    [][ /\ lastResponse'.kind = "PasswordForm"
              => customRedirectModes' = customRedirectModes
        /\ customRedirectModes' # customRedirectModes
              => /\ lastResponse'.kind = "Portal"
                 /\ lastResponse'.method = "POST"
                 /\ \E r \in Reqs : pc[r] = "formData" /\ pc'[r] = "idle"
      ]_vars

\* C23 witness: a post to the portal has been answered with the password
\* form while the store holds the override an earlier request set
C23_Witness ==
    /\ lastResponse.kind = "PasswordForm"
    /\ lastResponse.method = "POST"
    /\ DOMAIN customRedirectModes # {}
    /\ \E h \in FormDomains \ {<<>>} : h \notin DOMAIN customRedirectModes

\* C24: parse(name) takes the first label as service, the second as
\* protocol and the remaining labels rejoined with dots as hostname; the
\* parsed hostname is non-empty whenever the name has at least 3 labels, and
\* every name with fewer than 3 labels degrades to service empty, protocol
\* empty and hostname equal to the original name.
C24_ParseByLabels ==
    lastResponse.kind = "Parse"
      => LET labels == Split(lastResponse.name)
             p == lastResponse.parsed
         IN  IF Len(labels) >= 3
             THEN /\ p.service = labels[1]
                  /\ p.protocol = labels[2]
                  /\ p.hostname = Join(SubSeq(labels, 3, Len(labels)))
                  /\ p.hostname # <<>>
             ELSE /\ p.service = <<>>
                  /\ p.protocol = <<>>
                  /\ p.hostname = lastResponse.name

=============================================================================
